---- MODULE Spec2Model ----
(***************************************************************************)
(* Model of rust-ds4 (src/main.rs): a polling loop that reads a 64-byte    *)
(* HID report from a DualShock 4, decodes the buttons and the d-pad, and   *)
(* calls a per-control handler whenever a control's value changes.         *)
(***************************************************************************)
EXTENDS Integers, Sequences, FiniteSets, TLC

(***************************************************************************)
(* Bounds of the model.                                                    *)
(***************************************************************************)
\* Largest number of controls that are away from rest in one generated
\* report (a held flat button, a d-pad nibble other than 8, a non-zero
\* untracked byte and non-zero untracked bits of byte 7 count one each).
MaxHeld == 1
\* Largest value given to the untracked byte and to bits 7..2 of byte 7.
MaxOther == 1
\* The clock is in milliseconds; the time since the limiter's last_iter is
\* followed up to MaxElapsed and saturates there.
MaxElapsed == 18
\* Largest time thread::sleep sleeps beyond the requested delay.
MaxOversleep == 1

(***************************************************************************)
(* DPad (main.rs 5-39)                                                     *)
(***************************************************************************)
DPad == {"Released", "NorthWest", "West", "SouthWest", "South",
         "SouthEast", "East", "NorthEast", "North"}

\* The outcome of the panic! arm of DPad::from_byte.
Panic == "panic"

\* A default that is the position of nibble 0.
DPadDefaultNorth == "North"

\* impl Default for DPad
DPadDefault == "Released"

\* b & 0x0f on a u8.
LowNibble(b) == b % 16

\* b & m > 0 on a u8, for a mask m with a single bit set.
TestBit(b, m) == (b \div m) % 2 = 1

DPadFromByteWrong(b) ==
    CASE LowNibble(b) = 8 -> "Released"
      [] LowNibble(b) = 7 -> "NorthWest"
      [] LowNibble(b) = 6 -> "West"
      [] LowNibble(b) = 5 -> "SouthWest"
      [] LowNibble(b) = 4 -> "South"
      [] LowNibble(b) = 3 -> "SouthEast"
      [] LowNibble(b) = 2 -> "East"
      [] LowNibble(b) = 1 -> "North"
      [] LowNibble(b) = 0 -> "North"
      [] OTHER -> "Released"

\* DPad::from_byte
DPadFromByte(b) ==
    CASE LowNibble(b) = 8 -> "Released"
      [] LowNibble(b) = 7 -> "NorthWest"
      [] LowNibble(b) = 6 -> "West"
      [] LowNibble(b) = 5 -> "SouthWest"
      [] LowNibble(b) = 4 -> "South"
      [] LowNibble(b) = 3 -> "SouthEast"
      [] LowNibble(b) = 2 -> "East"
      [] LowNibble(b) = 1 -> "NorthEast"
      [] LowNibble(b) = 0 -> "North"
      [] OTHER -> Panic

(***************************************************************************)
(* Controls (main.rs 41-97)                                                *)
(***************************************************************************)
\* The order with circle updated before triangle.
OrderSwapped == <<"circle", "triangle", "x", "square", "dpad",
                  "r3", "l3", "options", "share", "r2", "l2", "r1", "l1",
                  "tpad", "ps">>

\* The order with the pad updated after every flat button.
OrderPadLast == <<"triangle", "circle", "x", "square",
                  "r3", "l3", "options", "share", "r2", "l2", "r1", "l1",
                  "tpad", "ps", "dpad">>

\* The fields of struct Controls, in the order Controls::update visits them.
Order == <<"triangle", "circle", "x", "square", "dpad",
           "r3", "l3", "options", "share", "r2", "l2", "r1", "l1",
           "tpad", "ps">>

ControlNames == {Order[i] : i \in 1..Len(Order)}

FlatButtons == ControlNames \ {"dpad"}

\* Position of a control in Controls::update.
Index == [c \in ControlNames |-> CHOOSE i \in 1..Len(Order) : Order[i] = c]

\* An offset of the report that Controls::update never reads.
OtherOffset == 1

\* The offsets with touchpad and PS read from an untracked byte.
OffsetShifted ==
    [triangle |-> 5, circle |-> 5, x |-> 5, square |-> 5,
     r3 |-> 6, l3 |-> 6, options |-> 6, share |-> 6,
     r2 |-> 6, l2 |-> 6, r1 |-> 6, l1 |-> 6,
     tpad |-> OtherOffset, ps |-> OtherOffset]

\* The report offset each flat button is read from.
Offset ==
    [triangle |-> 5, circle |-> 5, x |-> 5, square |-> 5,
     r3 |-> 6, l3 |-> 6, options |-> 6, share |-> 6,
     r2 |-> 6, l2 |-> 6, r1 |-> 6, l1 |-> 6,
     tpad |-> 7, ps |-> 7]

\* The masks with L1 tested on the bit of R1.
MaskShared ==
    [triangle |-> 128, circle |-> 64, x |-> 32, square |-> 16,
     r3 |-> 128, l3 |-> 64, options |-> 32, share |-> 16,
     r2 |-> 8, l2 |-> 4, r1 |-> 2, l1 |-> 2,
     tpad |-> 2, ps |-> 1]

\* The masks with square tested on a bit of the pad nibble.
MaskPadOverlap ==
    [triangle |-> 128, circle |-> 64, x |-> 32, square |-> 8,
     r3 |-> 128, l3 |-> 64, options |-> 32, share |-> 16,
     r2 |-> 8, l2 |-> 4, r1 |-> 2, l1 |-> 1,
     tpad |-> 2, ps |-> 1]

\* The masks with those of R1 and L1 exchanged.
MaskSwapped ==
    [triangle |-> 128, circle |-> 64, x |-> 32, square |-> 16,
     r3 |-> 128, l3 |-> 64, options |-> 32, share |-> 16,
     r2 |-> 8, l2 |-> 4, r1 |-> 1, l1 |-> 2,
     tpad |-> 2, ps |-> 1]

\* The mask each flat button is tested with.
Mask ==
    [triangle |-> 128, circle |-> 64, x |-> 32, square |-> 16,
     r3 |-> 128, l3 |-> 64, options |-> 32, share |-> 16,
     r2 |-> 8, l2 |-> 4, r1 |-> 2, l1 |-> 1,
     tpad |-> 2, ps |-> 1]

\* The argument Controls::update passes to the control's Button::update.
Decode(c, report) ==
    IF c = "dpad" THEN DPadFromByte(report[5])
    ELSE TestBit(report[Offset[c]], Mask[c])

(***************************************************************************)
(* Button<T> (main.rs 126-158)                                             *)
(***************************************************************************)
\* Button::new: handler None is modelled as handler = FALSE.
ButtonNew(state) == [state |-> state, handler |-> FALSE]

\* Button::default: T::default() is false for bool, DPad::Released for DPad.
ButtonDefault(c) == ButtonNew(IF c = "dpad" THEN DPadDefault ELSE FALSE)

\* Button::set_handler
ButtonSetHandler(b) == [b EXCEPT !.handler = TRUE]

\* Button::update with a level-triggered dispatch: the handler is called on
\* every update, changed or not.
ButtonUpdateLevel(b, new_state) ==
    [button |-> [b EXCEPT !.state = new_state],
     calls  |-> IF b.handler THEN << <<b.state, new_state>> >> ELSE << >>]

\* Button::update that passes (new_state, old_state) to the handler.
ButtonUpdateSwapArgs(b, new_state) ==
    IF b.state # new_state
    THEN [button |-> [b EXCEPT !.state = new_state],
          calls  |-> IF b.handler THEN << <<new_state, b.state>> >> ELSE << >>]
    ELSE [button |-> b, calls |-> << >>]

\* Button::update that stores the new state only next to the handler call.
ButtonUpdateStoreIfHandler(b, new_state) ==
    IF b.state # new_state
    THEN IF b.handler
         THEN [button |-> [b EXCEPT !.state = new_state],
               calls  |-> << <<b.state, new_state>> >>]
         ELSE [button |-> b, calls |-> << >>]
    ELSE [button |-> b, calls |-> << >>]

\* Button::update that forgets to store the new state.
ButtonUpdateNoStore(b, new_state) ==
    IF b.state # new_state
    THEN [button |-> b,
          calls  |-> IF b.handler THEN << <<b.state, new_state>> >> ELSE << >>]
    ELSE [button |-> b, calls |-> << >>]

\* Button::update: the button afterwards and the handler calls it made,
\* each call being <<old_state, new_state>>.
ButtonUpdate(b, new_state) ==
    IF b.state # new_state
    THEN [button |-> [b EXCEPT !.state = new_state],
          calls  |-> IF b.handler THEN << <<b.state, new_state>> >> ELSE << >>]
    ELSE [button |-> b, calls |-> << >>]

\* Controls::new
ControlsNew == [c \in ControlNames |-> ButtonDefault(c)]

\* The handler calls of the first n statements of Controls::update, in the
\* order they are made. Statement i updates the field Order[i] only.
RECURSIVE CallsUpTo(_, _, _)
CallsUpTo(ctrls, report, n) ==
    IF n = 0 THEN << >>
    ELSE CallsUpTo(ctrls, report, n - 1)
         \o [k \in 1..Len(ButtonUpdate(ctrls[Order[n]],
                                       Decode(Order[n], report)).calls) |->
                [ctl |-> Order[n],
                 old |-> ButtonUpdate(ctrls[Order[n]],
                                      Decode(Order[n], report)).calls[k][1],
                 new |-> ButtonUpdate(ctrls[Order[n]],
                                      Decode(Order[n], report)).calls[k][2]]]

\* Controls::update: the controls afterwards, the handler calls made and
\* whether DPad::from_byte panicked. The statements run in the order of
\* Order; a panic in DPad::from_byte ends the function before dpad.update.
ControlsUpdate(ctrls, report) ==
    LET panicked == DPadFromByte(report[5]) = Panic
        n == IF panicked THEN Index["dpad"] - 1 ELSE Len(Order)
    IN  [controls |-> [c \in ControlNames |->
                          IF Index[c] <= n
                          THEN ButtonUpdate(ctrls[c], Decode(c, report)).button
                          ELSE ctrls[c]],
         events   |-> CallsUpTo(ctrls, report, n),
         panicked |-> panicked]

(***************************************************************************)
(* Reports read from the device                                            *)
(***************************************************************************)
Offsets == {OtherOffset, 5, 6, 7}

RECURSIVE PopCount(_)
PopCount(b) == IF b = 0 THEN 0 ELSE (b % 2) + PopCount(b \div 2)

\* A report, given by its face-button bits f (bits 7..4 of byte 5), pad
\* nibble n, byte 6, tracked bits a and untracked bits h of byte 7 and the
\* untracked byte o.
MkReport(f, n, s, a, h, o) ==
    [k \in Offsets |->
        CASE k = 5 -> 16 * f + n
          [] k = 6 -> s
          [] k = 7 -> 4 * h + a
          [] OTHER -> o]

Activity(f, n, s, a, h, o) ==
    PopCount(f) + PopCount(s) + PopCount(a)
    + (IF n = 8 THEN 0 ELSE 1) + (IF h = 0 THEN 0 ELSE 1)
    + (IF o = 0 THEN 0 ELSE 1)

\* Reports with at most MaxHeld controls away from rest.
BoundedReports ==
    LET F == {f \in 0..15 : PopCount(f) <= MaxHeld}
        S == {s \in 0..255 : PopCount(s) <= MaxHeld}
    IN  {MkReport(q[1], q[2], q[3], q[4], q[5], q[6]) :
            q \in {p \in F \X (0..15) \X S \X (0..3)
                          \X (0..MaxOther) \X (0..MaxOther) :
                      Activity(p[1], p[2], p[3], p[4], p[5], p[6]) <= MaxHeld}}

\* The reports of the scenarios of the documentation: the all-zero report,
\* byte 5 = 0b10000100, byte 6 = 0x03; reports holding two buttons of one
\* byte, two bytes, or a button and a pad direction at once; and reports
\* with buttons held next to an invalid pad nibble.
ScenarioReports ==
    {MkReport(0, 0, 0, 0, 0, 0), MkReport(8, 4, 0, 0, 0, 0),
     MkReport(0, 8, 3, 0, 0, 0), MkReport(12, 8, 0, 0, 0, 0),
     MkReport(1, 8, 128, 0, 0, 0), MkReport(0, 8, 1, 3, 0, 0),
     MkReport(1, 5, 0, 0, 0, 0), MkReport(0, 8, 0, 1, 1, 1),
     MkReport(8, 9, 1, 0, 0, 0), MkReport(0, 15, 0, 2, 0, 0)}

Reports == BoundedReports \cup ScenarioReports

\* The value of the report variable while no report has been read.
NoReport == << >>

(***************************************************************************)
(* The program: main (main.rs 184-221)                                     *)
(***************************************************************************)
\* const TARGET_FPS
TARGET_FPS == 60

\* The interval given to RateLimiter::new: Duration::from_millis(1000 /
\* TARGET_FPS), an integer division.
Interval == 1000 \div TARGET_FPS

\* The value of the waited variable while rl.wait() has not returned yet.
NoWait == << >>

VARIABLES
    controls,   \* Controller.controls: control name -> Button
    pc,         \* position of main: "setup", "wait", "poll", "dead"
    failure,    \* why main died: "none", "pad" (panic in from_byte), "io"
    report,     \* the report read by the current Controller::update
    last,       \* the report read by the previous Controller::update
    old,        \* the states of the controls when the iteration began
    events,     \* the handler calls of the current iteration, in order
    early,      \* the controls whose handler was registered before the loop
    fresh,      \* the controls whose handler was registered in this iteration
    chain,      \* per control, the new value of the latest handler call of
                \* the earlier iterations, the default value if there is none
    since,      \* RateLimiter: Instant::now() - last_iter, in milliseconds
    waited      \* the latest rl.wait(): the time elapsed it measured, the
                \* delay it asked thread::sleep for and the time it slept

vars == <<controls, pc, failure, report, last, old, events,
          early, fresh, chain, since, waited>>

States(ctrls) == [c \in ControlNames |-> ctrls[c].state]

\* The handlers main registers.
MainHandlers == {"square", "triangle", "dpad"}

\* The sets of controls a program registers handlers for in one go.
HandlerChoices == {MainHandlers, ControlNames}

Init ==
    /\ controls = ControlsNew
    /\ pc = "setup"
    /\ failure = "none"
    /\ report = NoReport
    /\ last = NoReport
    /\ old = States(ControlsNew)
    /\ events = << >>
    /\ early = {}
    /\ fresh = {}
    /\ chain = States(ControlsNew)
    /\ since = 0
    /\ waited = NoWait

\* A run of assignments of a fresh Button holding the handler, in place of
\* set_handler calls.
SetHandlersReset(S) ==
    /\ pc \in {"setup", "poll"}
    /\ \E c \in S : ~controls[c].handler
    /\ controls' = [c \in ControlNames |->
                      IF c \in S THEN ButtonSetHandler(ButtonDefault(c))
                      ELSE controls[c]]
    /\ early' = IF pc = "setup" THEN early \cup S ELSE early
    /\ fresh' = IF pc = "poll"
                THEN fresh \cup {c \in S : ~controls[c].handler}
                ELSE fresh
    /\ UNCHANGED <<pc, failure, report, last, old, events,
                   chain, since, waited>>

\* A run of set_handler calls, as in main.rs 189-212, made before the loop
\* or between two polls.
SetHandlers(S) ==
    /\ pc \in {"setup", "poll"}
    /\ \E c \in S : ~controls[c].handler
    /\ controls' = [c \in ControlNames |->
                      IF c \in S THEN ButtonSetHandler(controls[c])
                      ELSE controls[c]]
    /\ early' = IF pc = "setup" THEN early \cup S ELSE early
    /\ fresh' = IF pc = "poll"
                THEN fresh \cup {c \in S : ~controls[c].handler}
                ELSE fresh
    /\ UNCHANGED <<pc, failure, report, last, old, events,
                   chain, since, waited>>

\* Entering the loop (main.rs 214-217): RateLimiter::new sets last_iter to
\* Instant::now() - interval.
StartLoop ==
    /\ pc = "setup"
    /\ pc' = "wait"
    /\ since' = Interval
    /\ UNCHANGED <<controls, failure, report, last, old, events,
                   early, fresh, chain, waited>>

\* The chain after the handler calls ev.
ChainAfter(ch, ev) ==
    [c \in ControlNames |->
        IF \E k \in 1..Len(ev) : ev[k].ctl = c
        THEN ev[CHOOSE k \in 1..Len(ev) :
                   /\ ev[k].ctl = c
                   /\ \A m \in (k + 1)..Len(ev) : ev[m].ctl # c].new
        ELSE ch[c]]

\* The delay RateLimiter::wait asks thread::sleep for.
Delay(elapsed) == IF elapsed < Interval THEN Interval - elapsed ELSE 0

\* rl.wait() that sleeps a whole interval whenever it sleeps.
WaitFullSleep(x) ==
    /\ pc = "wait"
    /\ pc' = "poll"
    /\ waited' = [elapsed |-> since,
                  delay   |-> IF since < Interval THEN Interval ELSE 0,
                  slept   |-> IF since < Interval THEN Interval + x ELSE 0]
    /\ since' = 0
    /\ last' = report
    /\ report' = NoReport
    /\ old' = States(controls)
    /\ events' = << >>
    /\ chain' = ChainAfter(chain, events)
    /\ fresh' = {}
    /\ UNCHANGED <<controls, failure, early>>

\* The head of one iteration: rl.wait() (main.rs 218, 173-181), where
\* thread::sleep sleeps x longer than asked; last_iter becomes the time of
\* the return. The records of the previous iteration are folded away.
Wait(x) ==
    /\ pc = "wait"
    /\ pc' = "poll"
    /\ waited' = [elapsed |-> since,
                  delay   |-> Delay(since),
                  slept   |-> IF Delay(since) > 0 THEN Delay(since) + x ELSE 0]
    /\ since' = 0
    /\ last' = report
    /\ report' = NoReport
    /\ old' = States(controls)
    /\ events' = << >>
    /\ chain' = ChainAfter(chain, events)
    /\ fresh' = {}
    /\ UNCHANGED <<controls, failure, early>>

\* A millisecond passes while main is in the loop.
Tick ==
    /\ pc \in {"wait", "poll"}
    /\ since < MaxElapsed
    /\ since' = since + 1
    /\ UNCHANGED <<controls, pc, failure, report, last, old, events,
                   early, fresh, chain, waited>>

\* Controller::update when the read succeeds with report r (main.rs 219).
Update(r) ==
    /\ pc = "poll"
    /\ \E u \in {ControlsUpdate(controls, r)} :
           /\ controls' = u.controls
           /\ events' = u.events
           /\ pc' = IF u.panicked THEN "dead" ELSE "wait"
           /\ failure' = IF u.panicked THEN "pad" ELSE failure
    /\ report' = r
    /\ UNCHANGED <<last, old, early, fresh, chain, since, waited>>

\* Controller::update that runs Controls::update on the zeroed buffer before
\* it returns the read error.
UpdateFailsGarbage ==
    /\ pc = "poll"
    /\ \E u \in {ControlsUpdate(controls, MkReport(0, 0, 0, 0, 0, 0))} :
           /\ controls' = u.controls
           /\ events' = u.events
    /\ pc' = "dead"
    /\ failure' = "io"
    /\ UNCHANGED <<report, last, old, early, fresh, chain, since, waited>>

\* Controller::update when the read fails: `?` returns the error and the
\* expect in main panics.
UpdateFails ==
    /\ pc = "poll"
    /\ pc' = "dead"
    /\ failure' = "io"
    /\ UNCHANGED <<controls, report, last, old, events,
                   early, fresh, chain, since, waited>>

\* The program as main runs it: the handlers are set before the loop. The
\* reads return at once and the sleeps are of exactly the requested delay.
Next ==
    \/ \E S \in HandlerChoices : pc = "setup" /\ SetHandlers(S)
    \/ StartLoop
    \/ Wait(0)
    \/ \E r \in Reports : Update(r)
    \/ UpdateFails

Spec == Init /\ [][Next]_vars

\* The program fed with every value of byte 5, the other bytes being zero.
PadReports == {MkReport(f, n, 0, 0, 0, 0) : f \in 0..15, n \in 0..15}

NextPad ==
    \/ \E S \in HandlerChoices : pc = "setup" /\ SetHandlers(S)
    \/ StartLoop
    \/ Wait(0)
    \/ \E r \in PadReports : Update(r)
    \/ UpdateFails

SpecPad == Init /\ [][NextPad]_vars

\* The program under every timing and with handlers set at any time
\* between two polls: time passes while main waits for the limiter or for
\* the read, and thread::sleep may oversleep. The device sends a few reports
\* only.
TimedReports ==
    {MkReport(0, 8, 0, 0, 0, 0), MkReport(8, 4, 0, 0, 0, 0),
     MkReport(0, 8, 3, 0, 0, 0)}

NextTimed ==
    \/ \E S \in HandlerChoices : SetHandlers(S)
    \/ StartLoop
    \/ \E x \in 0..MaxOversleep : Wait(x)
    \/ \E r \in TimedReports : Update(r)
    \/ UpdateFails
    \/ Tick

SpecTimed == Init /\ [][NextTimed]_vars

TypeOK ==
    /\ pc \in {"setup", "wait", "poll", "dead"}
    /\ failure \in {"none", "pad", "io"}
    /\ report \in Reports \cup PadReports \cup {NoReport}
    /\ last \in Reports \cup PadReports \cup {NoReport}
    /\ \A c \in FlatButtons : controls[c].state \in BOOLEAN
    /\ controls["dpad"].state \in DPad
    /\ early \subseteq ControlNames
    /\ fresh \subseteq ControlNames \ early
    /\ \A c \in FlatButtons : chain[c] \in BOOLEAN
    /\ chain["dpad"] \in DPad
    /\ since \in 0..MaxElapsed
    /\ waited = NoWait
           \/ /\ waited.elapsed \in 0..MaxElapsed
              /\ waited.delay \in 0..Interval
              /\ waited.slept \in 0..(Interval + MaxOversleep)

(***************************************************************************)
(* The documented report layout and the vocabulary of the properties       *)
(***************************************************************************)
\* The documented bit of every flat button: <<offset, bit number>>.
Layout ==
    [triangle |-> <<5, 7>>, circle |-> <<5, 6>>, x |-> <<5, 5>>,
     square |-> <<5, 4>>,
     r3 |-> <<6, 7>>, l3 |-> <<6, 6>>, options |-> <<6, 5>>,
     share |-> <<6, 4>>, r2 |-> <<6, 3>>, l2 |-> <<6, 2>>,
     r1 |-> <<6, 1>>, l1 |-> <<6, 0>>,
     tpad |-> <<7, 1>>, ps |-> <<7, 0>>]

\* The documented position of every pad nibble 0..8, indexed by nibble + 1.
PadTable == <<"North", "NorthEast", "East", "SouthEast", "South",
              "SouthWest", "West", "NorthWest", "Released">>

\* Bit k of byte b.
BitOf(b, k) == (b \div (2 ^ k)) % 2

\* The documented value of flat button c in report r.
Held(c, r) == BitOf(r[Layout[c][1]], Layout[c][2]) = 1

Nibble(r) == r[5] % 16

ValidPad(r) == Nibble(r) <= 8

\* The tracked flat-button bits of a report.
FlatPart(r) == <<r[5] \div 16, r[6], r[7] % 4>>

\* The documented value of control c in a report with a valid pad nibble.
Documented(c, r) ==
    IF c = "dpad" THEN PadTable[Nibble(r) + 1] ELSE Held(c, r)

Ev(c, o, n) == [ctl |-> c, old |-> o, new |-> n]

\* The handler calls of the current poll that went to control c.
CallsTo(c) == SelectSeq(events, LAMBDA e : e.ctl = c)

\* A poll has read a report and Controls::update has run on it.
Polled == report # NoReport

\* The poll was the first one of the run.
FirstPoll == Polled /\ last = NoReport

\* Controls::update called Button::update on control c in this poll.
Updated(c) == ValidPad(report) \/ c \in {"triangle", "circle", "x", "square"}

Registered(c) == controls[c].handler

AllRegistered == \A c \in ControlNames : Registered(c)

(***************************************************************************)
(* C1  Handler dispatch is edge-triggered: in every poll, for every        *)
(* control Button::update was called on, the registered handler is called  *)
(* if and only if the decoded value differs from the stored one, then      *)
(* exactly once and with (stored old value, new value); an unchanged       *)
(* control gets no call.                                                   *)
(***************************************************************************)
C1_EdgeTriggered ==
    Polled =>
        \A c \in ControlNames :
            IF Updated(c) /\ Registered(c) /\ old[c] # Decode(c, report)
            THEN CallsTo(c) = << Ev(c, old[c], Decode(c, report)) >>
            ELSE CallsTo(c) = << >>

\* A poll in which a registered control changed and was called once while
\* another registered control stayed put, for a flat button and for the pad.
C1_Witness ==
    /\ Polled /\ last # NoReport /\ AllRegistered
    /\ Len(events) = 2
    /\ old["dpad"] # controls["dpad"].state
    /\ old["r1"] # controls["r1"].state
    /\ old["x"] = controls["x"].state

(***************************************************************************)
(* C2  Idempotence: polling a report X right after a successful poll of X  *)
(* calls no handler and changes no control state.                          *)
(***************************************************************************)
C2_Idempotent ==
    (Polled /\ last # NoReport /\ report = last) =>
        /\ events = << >>
        /\ States(controls) = old

\* The same report, holding a button and a pad direction, polled twice with
\* every handler registered.
C2_Witness ==
    /\ Polled /\ report = last /\ AllRegistered
    /\ controls["square"].state
    /\ controls["dpad"].state = "SouthWest"

(***************************************************************************)
(* C3  When consecutive reports differ in exactly one documented flat      *)
(* button bit, the poll yields exactly one event, for the button of that   *)
(* bit: Pressed (false -> true) on 0 -> 1, Released (true -> false) on     *)
(* 1 -> 0. An event is the call of the button's registered handler.        *)
(***************************************************************************)
\* Reports p and r agree on the pad nibble and on every flat button bit but
\* the one of button c.
OnlyBitDiffers(c, p, r) ==
    /\ Nibble(p) = Nibble(r)
    /\ Held(c, p) # Held(c, r)
    /\ \A d \in FlatButtons \ {c} : Held(d, p) = Held(d, r)

C3_SingleBit ==
    (Polled /\ last # NoReport) =>
        \A c \in FlatButtons :
            OnlyBitDiffers(c, last, report) =>
                events = IF Registered(c)
                         THEN << Ev(c, Held(c, last), Held(c, report)) >>
                         ELSE << >>

\* A press of L1 or a release of R3 as the only change, handlers registered.
C3_Witness ==
    /\ Polled /\ last # NoReport /\ AllRegistered
    /\ \/ /\ OnlyBitDiffers("l1", last, report)
          /\ events = << Ev("l1", FALSE, TRUE) >>
       \/ /\ OnlyBitDiffers("r3", last, report)
          /\ events = << Ev("r3", TRUE, FALSE) >>

(***************************************************************************)
(* C4  Ordering within a byte group. As documented: when several flat      *)
(* button bits of one report byte change in a poll, all Pressed events of  *)
(* that byte come before all Released events of that byte.                 *)
(***************************************************************************)
IsFlat(e) == e.ctl # "dpad"

SameByte(e, f) ==
    IsFlat(e) /\ IsFlat(f) /\ Layout[e.ctl][1] = Layout[f.ctl][1]

C5_FlatEventsSurvive ==
    (Polled /\ ~ValidPad(report)) =>
        \A c \in FlatButtons :
            /\ controls[c].state = Held(c, report)
            /\ (Registered(c) /\ old[c] # Held(c, report))
                   => CallsTo(c) = << Ev(c, old[c], Held(c, report)) >>

(***************************************************************************)
(* C6  An invalid pad nibble is recoverable per poll: after a poll whose   *)
(* pad nibble is 9..15 the loop is still running and goes on to the next   *)
(* report.                                                                 *)
(***************************************************************************)
C6_PadErrorRecoverable ==
    (Polled /\ ~ValidPad(report)) => (pc = "wait" /\ ENABLED Wait(0))

(***************************************************************************)
(* C7  The initial stored state. As documented: it is that of an all-zero  *)
(* previous report, so the events of the first poll of R are those derived *)
(* from (all-zero report, R).                                              *)
(***************************************************************************)
ZeroReport == MkReport(0, 0, 0, 0, 0, 0)

\* The report of a controller at rest: all zero but for pad nibble 8.
RestReport == MkReport(0, 8, 0, 0, 0, 0)

\* The calls of the current poll are those of the documented difference
\* between report p and the report polled.
CallsAreDiffFrom(p) ==
    \A c \in ControlNames :
        CallsTo(c) =
            IF Registered(c) /\ Documented(c, p) # Documented(c, report)
            THEN << Ev(c, Documented(c, p), Documented(c, report)) >>
            ELSE << >>

C8_PadDecoding ==
    Polled =>
        /\ IF Nibble(report) <= 8
           THEN /\ failure = "none"
                /\ controls["dpad"].state = PadTable[Nibble(report) + 1]
           ELSE /\ failure = "pad"
                /\ controls["dpad"].state = old["dpad"]
        /\ (last # NoReport /\ ValidPad(report))
               => ((Nibble(last) = Nibble(report))
                      <=> (old["dpad"] = controls["dpad"].state))

\* Byte 5 = 0xF7 was decoded to NorthWest, then byte 5 = 0x9F is refused.
C8_Witness ==
    /\ Polled /\ last # NoReport
    /\ last[5] = 247 /\ old["dpad"] = "NorthWest"
    /\ report[5] = 159 /\ failure = "pad"

(***************************************************************************)
(* C9  The pad is one multi-valued control: when consecutive reports have  *)
(* valid and different pad nibbles, the poll yields exactly one pad event, *)
(* carrying (old position, new position), and the nibble bits cause no     *)
(* flat button event; if only the nibble differs, the pad event is the     *)
(* only event of the poll.                                                 *)
(***************************************************************************)
C9_SinglePadEvent ==
    (Polled /\ last # NoReport /\ ValidPad(report)
            /\ Nibble(last) # Nibble(report)) =>
        /\ CallsTo("dpad") =
               IF Registered("dpad")
               THEN << Ev("dpad", PadTable[Nibble(last) + 1],
                                  PadTable[Nibble(report) + 1]) >>
               ELSE << >>
        /\ \A c \in FlatButtons :
               Held(c, last) = Held(c, report) => CallsTo(c) = << >>
        /\ FlatPart(last) = FlatPart(report) => events = CallsTo("dpad")

\* The nibble goes from 0111 to 1000 (all four bits change) and nothing else
\* does: one event, NorthWest -> Released.
C9_Witness ==
    /\ Polled /\ last # NoReport /\ AllRegistered
    /\ Nibble(last) = 7 /\ Nibble(report) = 8
    /\ FlatPart(last) = FlatPart(report)
    /\ events = << Ev("dpad", "NorthWest", "Released") >>

(***************************************************************************)
(* C10  Device read failure: Controller::update returns the error without  *)
(* calling Controls::update, so no handler is called and no control state  *)
(* changes in that poll; the error is fatal to the loop, which polls no    *)
(* more.                                                                   *)
(***************************************************************************)
C10_ReadFailure ==
    failure = "io" =>
        /\ events = << >>
        /\ States(controls) = old
        /\ report = NoReport
        /\ pc = "dead"
        /\ ~ENABLED Next

\* The read fails after an earlier poll left a button held and the pad away
\* from rest, every handler registered.
C10_Witness ==
    /\ failure = "io" /\ last # NoReport /\ AllRegistered
    /\ controls["ps"].state
    /\ pc = "dead"

(***************************************************************************)
(* C11  Event count: for consecutive reports with valid pad nibbles and    *)
(* for each tracked byte, the flat button events of that byte are one per  *)
(* changed bit (as many as the population count of prev XOR curr over the  *)
(* flat bits of the byte), Pressed for the bits set in curr, Released for  *)
(* the bits set in prev, none for unchanged bits. An event is the call of  *)
(* the button's registered handler.                                        *)
(***************************************************************************)
RECURSIVE BitXor(_, _)
BitXor(a, b) ==
    IF a = 0 /\ b = 0 THEN 0
    ELSE ((a + b) % 2) + 2 * BitXor(a \div 2, b \div 2)

\* The flat button bits of byte k of report r.
FlatBits(r, k) ==
    CASE k = 5 -> 16 * (r[5] \div 16)
      [] k = 6 -> r[6]
      [] k = 7 -> r[7] % 4

\* The calls of the current poll that went to flat buttons of byte k.
FlatCallsOf(k) ==
    SelectSeq(events, LAMBDA e : e.ctl # "dpad" /\ Layout[e.ctl][1] = k)

C11_EventCount ==
    (Polled /\ last # NoReport /\ ValidPad(report)) =>
        /\ \A c \in FlatButtons :
               CallsTo(c) =
                   IF Registered(c) /\ Held(c, last) # Held(c, report)
                   THEN << Ev(c, Held(c, last), Held(c, report)) >>
                   ELSE << >>
        /\ AllRegistered =>
               \A k \in {5, 6, 7} :
                   Len(FlatCallsOf(k))
                       = PopCount(BitXor(FlatBits(last, k), FlatBits(report, k)))

\* Byte 6 goes from 0x03 to 0x00: Released(R1) and Released(L1), no Pressed.
C11_Witness ==
    /\ Polled /\ last # NoReport /\ AllRegistered
    /\ last[6] = 3 /\ report[6] = 0
    /\ FlatCallsOf(6) = << Ev("r1", TRUE, FALSE), Ev("l1", TRUE, FALSE) >>

(***************************************************************************)
(* C12  Cross-group ordering: within one poll the events are dispatched in *)
(* ascending byte offset: every event of byte 5 (face buttons and pad)     *)
(* before every event of byte 6, and those before every event of byte 7.   *)
(***************************************************************************)
ByteOf(e) == IF e.ctl = "dpad" THEN 5 ELSE Layout[e.ctl][1]

C12_ByteOrder ==
    Polled =>
        \A i, j \in 1..Len(events) :
            i < j => ByteOf(events[i]) <= ByteOf(events[j])

\* One poll with a pad event, then an event of byte 6 and two of byte 7.
C12_Witness ==
    /\ Polled /\ Len(events) = 4
    /\ events[1].ctl = "dpad"
    /\ events[2].ctl = "l1"
    /\ events[3].ctl = "tpad"
    /\ events[4].ctl = "ps"

(***************************************************************************)
(* C13  Only the documented bits are decoded: consecutive reports that     *)
(* agree on byte 5, byte 6 and bits 1..0 of byte 7 and differ anywhere     *)
(* else produce no event and leave every control state unchanged.          *)
(***************************************************************************)
C13_UntrackedIgnored ==
    (Polled /\ last # NoReport
            /\ report[5] = last[5] /\ report[6] = last[6]
            /\ report[7] % 4 = last[7] % 4) =>
        /\ events = << >>
        /\ States(controls) = old

\* The untracked byte and bits 7..2 of byte 7 both change, nothing else does.
C13_Witness ==
    /\ Polled /\ last # NoReport /\ AllRegistered
    /\ report[OtherOffset] # last[OtherOffset]
    /\ report[7] \div 4 # last[7] \div 4
    /\ report[5] = last[5] /\ report[6] = last[6]
    /\ report[7] % 4 = last[7] % 4

(***************************************************************************)
(* C14  The stored state tracks the last report: after every successful    *)
(* poll of a report R with a valid pad nibble, whatever the history and    *)
(* the registered handlers, every control's stored state is the decoding   *)
(* of R; so the events of a poll depend on the previous report and the     *)
(* polled one only.                                                        *)
(***************************************************************************)
C14_StateTracksReport ==
    (Polled /\ ValidPad(report)) =>
        /\ \A c \in ControlNames : controls[c].state = Documented(c, report)
        /\ last # NoReport => CallsAreDiffFrom(last)

\* No handler is registered and the poll changed a button and the pad.
C14_Witness ==
    /\ Polled /\ last # NoReport /\ ValidPad(report)
    /\ \A c \in ControlNames : ~Registered(c)
    /\ old["dpad"] # controls["dpad"].state
    /\ old["l2"] /\ ~controls["l2"].state

(***************************************************************************)
(* C15  The first poll is not a baseline: on the first poll every flat     *)
(* button whose bit is set in the report produces exactly one Pressed      *)
(* event, and no flat button whose bit is clear produces an event. An      *)
(* event is the call of the button's registered handler.                   *)
(***************************************************************************)
C15_FirstPollPresses ==
    FirstPoll =>
        \A c \in FlatButtons :
            CallsTo(c) = IF Registered(c) /\ Held(c, report)
                         THEN << Ev(c, FALSE, TRUE) >>
                         ELSE << >>

\* The new value of the previous call to the control of the k-th call of
\* this poll, the control's default value if there was none.
Previous(k) ==
    LET c == events[k].ctl
        before == SelectSeq(SubSeq(events, 1, k - 1), LAMBDA e : e.ctl = c)
    IN  IF before # << >> THEN before[Len(before)].new ELSE chain[c]

(***************************************************************************)
(* C16  The calls to a handler registered before the loop form a chain:    *)
(* the old value of every call is the new value of the previous call to    *)
(* that control, the control's default value for the first call, and old   *)
(* and new differ; so the calls to a flat button alternate Pressed,        *)
(* Released, Pressed, ... and start with Pressed.                          *)
(***************************************************************************)
C16_EventChain ==
    \A k \in 1..Len(events) :
        events[k].ctl \in early =>
            /\ events[k].old = Previous(k)
            /\ events[k].old # events[k].new
            /\ events[k].ctl \in FlatButtons =>
                   events[k].new = ~Previous(k)

\* A second and a first call: the handler of triangle, called with Pressed
\* in an earlier poll, is called with Released, and the handler of l1, never
\* called with Pressed before, is called with Pressed.
C16_Witness ==
    /\ {"triangle", "l1"} \subseteq early
    /\ chain["triangle"] /\ ~chain["l1"]
    /\ CallsTo("triangle") = << Ev("triangle", TRUE, FALSE) >>
    /\ CallsTo("l1") = << Ev("l1", FALSE, TRUE) >>

(***************************************************************************)
(* C17  The stored state does not depend on the handlers: a poll stores    *)
(* the new value of a control that has no handler, and set_handler leaves  *)
(* every stored state alone and calls nothing; so a handler set between    *)
(* two polls is not called for the changes of the earlier polls, and its   *)
(* first call gets as old value the state stored by the latest poll, not   *)
(* the default value.                                                      *)
(***************************************************************************)
C17_LateHandler ==
    /\ pc = "poll" => (States(controls) = old /\ events = << >>)
    /\ (Polled /\ ValidPad(report)) =>
           \A c \in ControlNames :
               ~Registered(c) => controls[c].state = Documented(c, report)
    /\ (Polled /\ ValidPad(report)) =>
           \A c \in fresh :
               /\ last # NoReport => old[c] = Documented(c, last)
               /\ CallsTo(c) =
                      IF old[c] # Documented(c, report)
                      THEN << Ev(c, old[c], Documented(c, report)) >>
                      ELSE << >>

\* Triangle was pressed and the pad pushed South while they had no handler;
\* the handlers set after that poll are first called with the release.
C17_Witness ==
    /\ Polled /\ last = MkReport(8, 4, 0, 0, 0, 0)
    /\ {"triangle", "dpad"} \subseteq fresh
    /\ events = << Ev("triangle", TRUE, FALSE), Ev("dpad", "South", "Released") >>

(***************************************************************************)
(* C18  RateLimiter::wait asks thread::sleep for interval - elapsed when   *)
(* the time elapsed since its previous return is less than the interval,   *)
(* and does not sleep otherwise, so two returns in a row are at least an   *)
(* interval apart; the first wait after RateLimiter::new does not sleep;   *)
(* the limiter leaves the control states alone, and under every timing     *)
(* the calls of a poll are those of the difference between the previous    *)
(* report and the polled one.                                              *)
(***************************************************************************)
C18_RateLimiter ==
    /\ waited # NoWait =>
           /\ waited.delay = IF waited.elapsed < Interval
                             THEN Interval - waited.elapsed
                             ELSE 0
           /\ waited.slept >= waited.delay
           /\ waited.delay = 0 => waited.slept = 0
           /\ waited.elapsed + waited.slept >= Interval
           /\ last = NoReport => waited.slept = 0
    /\ pc = "poll" => (waited # NoWait /\ since <= MaxElapsed
                       /\ States(controls) = old)
    /\ (Polled /\ ValidPad(report)) =>
           /\ \A c \in ControlNames : controls[c].state = Documented(c, report)
           /\ CallsAreDiffFrom(IF last = NoReport THEN RestReport ELSE last)

\* The loop came back to wait 5 ms after the previous return; wait asked for
\* 11 ms and slept 12, and the poll that followed made calls.
C18_Witness ==
    /\ Polled /\ events # << >>
    /\ waited = [elapsed |-> 5, delay |-> 11, slept |-> 12]
====
